---------------------------- MODULE Spec2Model ----------------------------
(*************************************************************************)
(* Model of js/mascot-animation.js: the MundoMascot animation state      *)
(* machine (visibility observer, entrance timer, requestAnimationFrame   *)
(* loop, wave/bounce one-shot effects) and ScrollCharacterManager        *)
(* (per-element 'visible' class, scroll-direction throttle).             *)
(*                                                                       *)
(* Time is the host clock performance.now() in milliseconds.  The host   *)
(* is single-threaded: every action below is one callback run to         *)
(* completion.  A timer fires when the clock has reached its due time    *)
(* and the clock does not pass a timer that is due.                      *)
(*************************************************************************)
EXTENDS Integers, Sequences, FiniteSets

\* ---------------------------------------------------------------- bounds
\* The clock stops at MaxTime; timers are only created if they fire by then.
MaxTime == 1600
\* Entrance timers plus floating-loop frame callbacks pending at once.
MaxLoops == 2
\* Pending timers of wave(), and of bounce().
MaxEffectTimers == 2
\* Entries in one intersection notification of ScrollCharacterManager.
MaxEntries == 2
\* Largest scroll position.
MaxScroll == 2
\* How far above the top the page may be over-scrolled (a negative offset).
OverScroll == 1
\* Scroll events between two scroll-direction frame callbacks.
MaxBurst == 3
\* emailjs.send promises pending at once.
MaxSends == 2
\* The time up to which all operations of the mascot are run together.
AllHorizon == 1000
\* Timers pending at once while all operations are run together.
MaxAllTimers == 2

\* ------------------------------------------------------ program constants
\* this.animationFrame = null : the falsy "no handle" value.
Null == 0
\* setTimeout(..., this.config.entranceDelay + 800)
PostEntranceDelay == 800
\* wave(): setTimeout(..., 1000)
WaveDuration == 1000
\* bounce(): setTimeout(..., 600)
BounceDuration == 600
\* Math.max(-20, Math.min(20, mouseOffsetX))
ClampX == 20
\* Math.max(-15, Math.min(15, mouseOffsetY))
ClampY == 15

RECURSIVE GCD(_, _)
GCD(a, b) == IF b = 0 THEN a ELSE GCD(b, a % b)

\* Config defaults of the constructor.  Fractions are kept as integers:
\* floatSpeed in 1/10000, rotationAmplitude in 1/10, mouseInfluence in 1/1000.
DefaultConfig ==
  [ floatAmplitude    |-> 15,
    floatSpeed        |-> 10,
    rotationAmplitude |-> 30,
    mouseInfluence    |-> 20,
    entranceDelay     |-> 200 ]

\* The overrides passed by the DOMContentLoaded handler of the TypeScript
\* variant of the module.
TsPageOverrides ==
  [ floatAmplitude    |-> 12,
    floatSpeed        |-> 8,
    rotationAmplitude |-> 25,
    mouseInfluence    |-> 15 ]

\* The overrides passed by the DOMContentLoaded handler.
PageOverrides ==
  [ floatAmplitude    |-> 12,
    floatSpeed        |-> 8,
    rotationAmplitude |-> 25,
    mouseInfluence    |-> 12 ]

\* Caller-supplied overrides the model constructs the mascot with:
\* none (new MundoMascot()), and the page's own.
EmptyOverrides == [k \in {} |-> 0]
Overrides == { EmptyOverrides, PageOverrides }
TsOverrides == { EmptyOverrides, TsPageOverrides }

\* A merge in which the defaults win over the caller's values.
MergeConfig_DefaultsWin(defaults, over) ==
  [k \in DOMAIN defaults |-> defaults[k]]

\* { ...defaults, ...config } : field by field, the override wins.
MergeConfig(defaults, over) ==
  [k \in DOMAIN defaults |-> IF k \in DOMAIN over THEN over[k] ELSE defaults[k]]

\* The clock advances on a grid that divides every delay of the program.
Step == GCD(GCD(WaveDuration, BounceDuration),
            GCD(PostEntranceDelay, DefaultConfig.entranceDelay))

\* Bounding rectangles getBoundingClientRect() may return for the element:
\* one near the viewport's corner, and one whose centre is the far pointer
\* position.
Rects ==
  { [left |-> 100,  top |-> 200,  width |-> 200, height |-> 100],
    [left |-> 1300, top |-> 1050, width |-> 200, height |-> 100] }

\* Pointer positions (clientX, clientY) a mousemove event may carry: the
\* viewport's corner and a far point.
Pointers == { [x |-> 0, y |-> 0], [x |-> 1400, y |-> 1100] }

Origin == [x |-> 0, y |-> 0]

\* The elements matched by '.scroll-character:not(.mundo-mascot)'.
Chars == {"bee", "star"}

\* window.pageYOffset values a scroll event may leave.
ScrollPositions == (-OverScroll)..MaxScroll


VARIABLES
  \* ---- MundoMascot fields
  variant,         \* which implementation runs: "js" (js/mascot-animation.js)
                   \* or "ts" (the TypeScript variant of the module)
  supplied,        \* the config argument the constructor was called with
  hasElement,      \* this.element is non-null (the selector matched)
  config,          \* this.config
  isVisible,       \* this.isVisible
  animationFrame,  \* this.animationFrame: a frame handle, or Null
  startTime,       \* this.startTime
  mousePosition,   \* this.mousePosition
  elementCenter,   \* this.elementCenter
  \* ---- the mascot element and the host
  classes,         \* the element's classList
  style,           \* the element's style.transform / style.filter
  rect,            \* what getBoundingClientRect() returns now
  observing,       \* the IntersectionObserver observes the element
  listeners,       \* event listeners registered by init()
  timers,          \* pending setTimeout callbacks, in creation order
  rafPending,      \* pending requestAnimationFrame handles of animate
  now,             \* performance.now()
  \* ---- history of the run
  effects,         \* what the last step did: a per-frame update, an early
                   \* return of animate, a frame request, a cancellation
  threw,           \* a callback raised an error
  lastVis,         \* the last visibility handler run: none/entered/left
  lastIntersecting, \* isIntersecting of the last entry processed
  lastHover,       \* the last of mouseenter/mouseleave: none/enter/leave
  called,          \* the public methods called so far
  waveCtx,         \* how the last wave() call lay w.r.t. earlier ones
  bounceCtx,       \* the same for bounce()
  \* ---- ScrollCharacterManager
  charVisible,     \* per character: its classList holds 'visible'
  lastEntry,       \* per character: its most recent notification entry
  ticking,         \* setupScrollDirection: let ticking
  lastScrollTop,   \* setupScrollDirection: let lastScrollTop
  pageYOffset,     \* window.pageYOffset
  bodyClasses,     \* document.body.classList
  scrollFrames,    \* pending scroll-direction frame callbacks
  scrollBurst,     \* scroll events since the last recomputation
  \* ---- the contact form (jQuery handler)
  emailjsDefined,  \* typeof emailjs !== 'undefined'
  fieldVal,        \* per required field: its value, a sequence of characters
  fieldBg,         \* the required fields whose background-color is '#FFDEDE'
  formVisible,     \* #contact_form is shown
  results,         \* the html of #contact_results
  resultsVisible,  \* #contact_results is shown
  pendingSends,    \* emailjs.send promises not settled yet
  formEffects,     \* what the last step did: a submit click, a send
  \* ---- img/optimize-slider-images.sh
  commands,        \* which of magick and convert `command -v` finds
  fileState,       \* per process_image call: what its source file is
  tool,            \* $TOOL
  pc,              \* the next statement: 0 the start, i the i-th
                   \* process_image call, then the report, then the end
  outputs,         \* output files written: << slide name, size >>
  warned           \* slides whose 'not found, skipping' warning was printed

mascotVars ==
  << variant, supplied, hasElement, config, isVisible, animationFrame, startTime,
     mousePosition,
     elementCenter, classes, style, rect, observing, listeners, timers,
     rafPending, now, effects, threw, lastVis, lastIntersecting, lastHover,
     called, waveCtx, bounceCtx >>

managerVars ==
  << charVisible, lastEntry, ticking, lastScrollTop, pageYOffset, bodyClasses,
     scrollFrames, scrollBurst >>

formVars ==
  << emailjsDefined, fieldVal, fieldBg, formVisible, results, resultsVisible,
     pendingSends, formEffects >>

\* The state of the page outside the mascot and the character manager.
scriptVars == << commands, fileState, tool, pc, outputs, warned >>

sideVars == << formVars, scriptVars >>

vars == << mascotVars, managerVars, sideVars >>

NoEffects ==
  [updated |-> FALSE, returned |-> FALSE, requested |-> FALSE, cancelled |-> FALSE,
   ignored |-> FALSE]

\* ------------------------------------------------------------ helpers
Min(a, b) == IF a < b THEN a ELSE b
Max(a, b) == IF a > b THEN a ELSE b

TimersOf(kind) == SelectSeq(timers, LAMBDA t : t.kind = kind)

Count(kind) == Len(TimersOf(kind))

\* Index of the timer the host runs next: earliest due, oldest first.
NextTimer ==
  CHOOSE i \in 1..Len(timers) :
    \A j \in 1..Len(timers) :
      \/ timers[i].due < timers[j].due
      \/ timers[i].due = timers[j].due /\ i <= j

RemoveAt(s, i) == SubSeq(s, 1, i - 1) \o SubSeq(s, i + 1, Len(s))

\* setTimeout(cb, delay), called at time `now`.
SetTimeout(kind, delay) ==
  Append(timers, [kind |-> kind, at |-> now, due |-> now + delay])

\* requestAnimationFrame returns a handle no pending callback has and that
\* differs from the one still stored in animationFrame.
NewHandle(frames) ==
  CHOOSE h \in 1..(MaxLoops + 2) :
    /\ h \notin frames \cup {animationFrame}
    /\ \A g \in 1..(h - 1) : g \in frames \cup {animationFrame}

\* calculateElementCenter: rect.left + rect.width / 2, rect.top + rect.height / 2
CenterOf(r) == [x |-> r.left + r.width \div 2, y |-> r.top + r.height \div 2]

\* ------------------------------------------------- MundoMascot: animate
Clamp(lo, hi, v) == Max(lo, Min(hi, v))

\* A pointer offset that forgets the element's centre.
MouseOffset_NoCentre(p, c) == p * config.mouseInfluence

\* (this.mousePosition.x - this.elementCenter.x) * this.config.mouseInfluence,
\* in 1/1000 px.
MouseOffset(p, c) == (p - c) * config.mouseInfluence

\* What animate writes to element.style: the elapsed time the sines are taken
\* of and the clamped pointer offsets (1/1000 px) added to the translation.
Transform(elapsed) ==
  << [ elapsed |-> elapsed,
       mouseX  |-> Clamp(-ClampX * 1000, ClampX * 1000,
                         MouseOffset(mousePosition.x, elementCenter.x)),
       mouseY  |-> Clamp(-ClampY * 1000, ClampY * 1000,
                         MouseOffset(mousePosition.y, elementCenter.y)) ] >>

\* The TypeScript variant of animate adds the pointer offsets unclamped.
TransformTS(elapsed) ==
  << [ elapsed |-> elapsed,
       mouseX  |-> MouseOffset(mousePosition.x, elementCenter.x),
       mouseY  |-> MouseOffset(mousePosition.y, elementCenter.y) ] >>

\* The style written by the implementation that runs.
StyleOf(elapsed) ==
  IF variant = "ts" THEN TransformTS(elapsed) ELSE Transform(elapsed)

AnimateGuard_NoVisibleTest == hasElement

\* if (!this.isVisible || !this.element) return;
AnimateGuard == isVisible /\ hasElement

Animate_NoRequest(st, frames) ==
  IF AnimateGuard
    THEN /\ style' = StyleOf(now - st)
         /\ animationFrame' = animationFrame
         /\ rafPending' = frames
         /\ effects' = [NoEffects EXCEPT !.updated = TRUE]
    ELSE /\ style' = style
         /\ animationFrame' = animationFrame
         /\ rafPending' = frames
         /\ effects' = [NoEffects EXCEPT !.returned = TRUE]

\* animate(), run with this.startTime = st and `frames` the callbacks still
\* pending: writes the style and requests the next frame, or returns early.
Animate(st, frames) ==
  IF AnimateGuard
    THEN LET h == NewHandle(frames) IN
         /\ style' = StyleOf(now - st)
         /\ animationFrame' = h
         /\ rafPending' = frames \cup {h}
         /\ effects' = [NoEffects EXCEPT !.updated = TRUE, !.requested = TRUE]
    ELSE /\ style' = style
         /\ animationFrame' = animationFrame
         /\ rafPending' = frames
         /\ effects' = [NoEffects EXCEPT !.returned = TRUE]

\* startFloatingAnimation(): this.startTime = performance.now(); this.animate()
StartFloatingAnimation ==
  /\ startTime' = now
  /\ Animate(now, rafPending)

\* stopFloatingAnimation(): cancel and forget the stored handle, if any.
StopFloatingAnimation ==
  IF animationFrame # Null
    THEN /\ rafPending' = rafPending \ {animationFrame}
         /\ animationFrame' = Null
         /\ effects' = [NoEffects EXCEPT !.cancelled = TRUE]
    ELSE /\ UNCHANGED << rafPending, animationFrame >>
         /\ effects' = NoEffects

\* ------------------------------------- MundoMascot: visibility transitions
\* triggerEntrance()
TriggerEntrance ==
  /\ IF ~hasElement
       THEN UNCHANGED << isVisible, classes, timers, lastVis >>
       ELSE /\ isVisible' = TRUE
            /\ classes' = classes \cup {"visible"}
            /\ timers' = SetTimeout("entrance", config.entranceDelay + PostEntranceDelay)
            /\ lastVis' = "entered"
  /\ effects' = NoEffects
  /\ UNCHANGED << startTime, mousePosition, elementCenter, rafPending,
                  animationFrame >>

TriggerExit_Reset ==
  /\ isVisible' = FALSE
  /\ classes' = classes \ {"visible"}
  /\ lastVis' = "left"
  /\ StopFloatingAnimation
  /\ startTime' = 0
  /\ mousePosition' = Origin
  /\ UNCHANGED << elementCenter, timers >>

\* An exit that clears the flag and leaves the 'visible' class on the element.
TriggerExit_KeepClass ==
  /\ IF ~hasElement
       THEN /\ UNCHANGED << isVisible, classes, lastVis, rafPending, animationFrame >>
            /\ effects' = NoEffects
       ELSE /\ isVisible' = FALSE
            /\ classes' = classes
            /\ lastVis' = "left"
            /\ StopFloatingAnimation
  /\ UNCHANGED << startTime, mousePosition, elementCenter, timers >>

\* triggerExit()
TriggerExit ==
  /\ IF ~hasElement
       THEN /\ UNCHANGED << isVisible, classes, lastVis, rafPending, animationFrame >>
            /\ effects' = NoEffects
       ELSE /\ isVisible' = FALSE
            /\ classes' = classes \ {"visible"}
            /\ lastVis' = "left"
            /\ StopFloatingAnimation
  /\ UNCHANGED << startTime, mousePosition, elementCenter, timers >>

\* An observer callback that runs the handler of every entry, transition or not.
Intersect_NoVisibleTest(isIntersecting) ==
  /\ observing
  /\ IF isIntersecting
       THEN /\ now + config.entranceDelay + PostEntranceDelay <= MaxTime
            /\ Count("entrance") + Cardinality(rafPending) < MaxLoops
            /\ TriggerEntrance
       ELSE TriggerExit
  /\ lastIntersecting' = isIntersecting
  /\ UNCHANGED << variant, supplied, hasElement, config, style, rect, observing,
                  listeners, now, threw, lastHover, called, waveCtx, bounceCtx >>
  /\ UNCHANGED managerVars
  /\ UNCHANGED sideVars

\* The IntersectionObserver callback, for one entry.
Intersect(isIntersecting) ==
  /\ observing
  /\ IF isIntersecting /\ ~isVisible
       THEN /\ now + config.entranceDelay + PostEntranceDelay <= MaxTime
            /\ Count("entrance") + Cardinality(rafPending) < MaxLoops
            /\ TriggerEntrance
       ELSE IF ~isIntersecting /\ isVisible
              THEN TriggerExit
              ELSE /\ effects' = [NoEffects EXCEPT !.ignored = TRUE]
                   /\ UNCHANGED << isVisible, classes, timers, lastVis, rafPending,
                                   animationFrame, startTime, mousePosition,
                                   elementCenter >>
  /\ lastIntersecting' = isIntersecting
  /\ UNCHANGED << variant, supplied, hasElement, config, style, rect, observing,
                  listeners, now, threw, lastHover, called, waveCtx, bounceCtx >>
  /\ UNCHANGED managerVars
  /\ UNCHANGED sideVars

\* ------------------------------------------------ MundoMascot: wave, bounce
\* How a call at `now` lies w.r.t. the earlier calls whose timers are pending:
\* alone (none pending), within (an earlier call less than `dur` ago, at an
\* earlier time), edge (only calls at this very time or exactly `dur` ago).
CallCtx(kind, dur) ==
  IF TimersOf(kind) = << >> THEN "alone"
  ELSE IF \E i \in 1..Len(timers) :
            /\ timers[i].kind = kind
            /\ timers[i].at < now
            /\ now < timers[i].at + dur
         THEN "within"
         ELSE "edge"

Wave_NoElementTest ==
  IF ~hasElement
    THEN /\ threw' = TRUE
         /\ UNCHANGED << classes, timers, waveCtx >>
    ELSE /\ classes' = classes \cup {"waving"}
         /\ timers' = SetTimeout("wave", WaveDuration)
         /\ waveCtx' = CallCtx("wave", WaveDuration)
         /\ threw' = threw

\* wave()
Wave ==
  IF ~hasElement
    THEN UNCHANGED << classes, timers, waveCtx, threw >>
    ELSE /\ classes' = classes \cup {"waving"}
         /\ timers' = SetTimeout("wave", WaveDuration)
         /\ waveCtx' = CallCtx("wave", WaveDuration)
         /\ threw' = threw

\* bounce(), run when the element's classList is cls.
BounceOn(cls) ==
  IF ~hasElement
    THEN /\ classes' = cls
         /\ UNCHANGED << timers, bounceCtx >>
    ELSE /\ classes' = cls \cup {"bouncing"}
         /\ timers' = SetTimeout("bounce", BounceDuration)
         /\ bounceCtx' = CallCtx("bounce", BounceDuration)

\* bounce()
Bounce == BounceOn(classes)

\* A call of the public method wave().
CallWave ==
  /\ now + WaveDuration <= MaxTime
  /\ Count("wave") < MaxEffectTimers
  /\ Wave
  /\ called' = called \cup {"wave"}
  /\ effects' = NoEffects
  /\ UNCHANGED << variant, supplied, hasElement, config, isVisible, animationFrame, startTime,
                  mousePosition, elementCenter, style, rect, observing,
                  listeners, rafPending, now, lastVis, lastIntersecting,
                  lastHover, bounceCtx >>
  /\ UNCHANGED managerVars
  /\ UNCHANGED sideVars

\* A call of the public method bounce().
CallBounce ==
  /\ now + BounceDuration <= MaxTime
  /\ Count("bounce") < MaxEffectTimers
  /\ Bounce
  /\ called' = called \cup {"bounce"}
  /\ effects' = NoEffects
  /\ UNCHANGED << variant, supplied, hasElement, config, isVisible, animationFrame, startTime,
                  mousePosition, elementCenter, style, rect, observing,
                  listeners, rafPending, now, threw, lastVis, lastIntersecting,
                  lastHover, waveCtx >>
  /\ UNCHANGED managerVars
  /\ UNCHANGED sideVars

\* this.handleResize.bind(this): every evaluation makes a new function object,
\* named here by the method whose body evaluates it.
BindHandleResize(site) == [bound |-> "handleResize", madeIn |-> site]

\* The function init() registered on 'resize' in the TypeScript variant.
ResizeListener == BindHandleResize("init")

\* window.removeEventListener(type, fn): the listener of that type is removed
\* when fn is the very function object that was registered, else nothing is.
RemoveEventListener(ls, type, fn) ==
  IF type = "resize" /\ fn = ResizeListener THEN ls \ {type} ELSE ls

\* destroy(): stopFloatingAnimation(); the TypeScript variant then calls
\* window.removeEventListener('resize', this.handleResize.bind(this)).
Destroy ==
  /\ StopFloatingAnimation
  /\ listeners' = IF variant = "ts"
                    THEN RemoveEventListener(listeners, "resize",
                                             BindHandleResize("destroy"))
                    ELSE listeners
  /\ called' = called \cup {"destroy"}
  /\ UNCHANGED << variant, supplied, hasElement, config, isVisible, startTime, mousePosition,
                  elementCenter, classes, style, rect, observing,
                  timers, now, threw, lastVis, lastIntersecting,
                  lastHover, waveCtx, bounceCtx >>
  /\ UNCHANGED managerVars
  /\ UNCHANGED sideVars

\* ------------------------------------------------------ host: timers, frames
EffectClass_Swapped(kind) == IF kind = "wave" THEN "bouncing" ELSE "waving"

\* The class a one-shot timer callback removes: this.element?.classList.remove(..)
EffectClass(kind) == IF kind = "wave" THEN "waving" ELSE "bouncing"

\* The host runs the next due setTimeout callback.
TimerFire ==
  /\ timers # << >>
  /\ LET i == NextTimer
         t == timers[i] IN
     /\ t.due <= now
     /\ timers' = RemoveAt(timers, i)
     /\ IF t.kind = "entrance"
          THEN /\ StartFloatingAnimation
               /\ UNCHANGED classes
          ELSE /\ classes' = IF hasElement THEN classes \ {EffectClass(t.kind)}
                                           ELSE classes
               /\ effects' = NoEffects
               /\ UNCHANGED << startTime, style, animationFrame, rafPending >>
  /\ UNCHANGED << variant, supplied, hasElement, config, isVisible, mousePosition, elementCenter,
                  rect, observing, listeners, now, threw, lastVis, lastIntersecting,
                  lastHover, called,
                  waveCtx, bounceCtx >>
  /\ UNCHANGED managerVars
  /\ UNCHANGED sideVars

\* The host runs one pending frame callback: () => this.animate()
FrameFire(h) ==
  /\ h \in rafPending
  /\ Animate(startTime, rafPending \ {h})
  /\ UNCHANGED << variant, supplied, hasElement, config, isVisible, startTime, mousePosition,
                  elementCenter, classes, rect, observing, listeners, timers,
                  now, threw, lastVis, lastIntersecting,
                  lastHover, called, waveCtx, bounceCtx >>
  /\ UNCHANGED managerVars
  /\ UNCHANGED sideVars

\* The clock advances by one grid step, never past a pending timer's due time.
Tick ==
  /\ now + Step <= MaxTime
  /\ \A i \in 1..Len(timers) : timers[i].due >= now + Step
  /\ now' = now + Step
  /\ effects' = NoEffects
  /\ UNCHANGED << variant, supplied, hasElement, config, isVisible, animationFrame, startTime,
                  mousePosition, elementCenter, classes, style, rect, observing,
                  listeners, timers, rafPending, threw, lastVis, lastIntersecting,
                  lastHover, called,
                  waveCtx, bounceCtx >>
  /\ UNCHANGED managerVars
  /\ UNCHANGED sideVars

\* ------------------------------------------------ pointer and layout events
\* document 'mousemove' listener
MouseMove(p) ==
  /\ "mousemove" \in listeners
  /\ mousePosition' = p
  /\ effects' = NoEffects
  /\ UNCHANGED << variant, supplied, hasElement, config, isVisible, animationFrame, startTime,
                  elementCenter, classes, style, rect, observing, listeners,
                  timers, rafPending, now, threw, lastVis, lastIntersecting,
                  lastHover, called,
                  waveCtx, bounceCtx >>
  /\ UNCHANGED managerVars
  /\ UNCHANGED sideVars

\* A resize handler that leaves the stored centre alone.
HandleResize_Keep ==
  elementCenter' = elementCenter

\* handleResize(): this.calculateElementCenter()
HandleResize ==
  elementCenter' = IF hasElement THEN CenterOf(rect') ELSE elementCenter

\* The window is resized, the element is laid out at r, and the 'resize'
\* listener runs.
Resize(r) ==
  /\ "resize" \in listeners
  /\ rect' = r
  /\ HandleResize
  /\ effects' = NoEffects
  /\ UNCHANGED << variant, supplied, hasElement, config, isVisible, animationFrame, startTime,
                  mousePosition, classes, style, observing, listeners, timers,
                  rafPending, now, threw, lastVis, lastIntersecting,
                  lastHover, called, waveCtx, bounceCtx >>
  /\ UNCHANGED managerVars
  /\ UNCHANGED sideVars

\* The page scrolls or reflows: the element's viewport rectangle changes and
\* no listener of the mascot runs.
Layout(r) ==
  /\ hasElement
  /\ rect' = r
  /\ effects' = NoEffects
  /\ UNCHANGED << variant, supplied, hasElement, config, isVisible, animationFrame, startTime,
                  mousePosition, elementCenter, classes, style, observing,
                  listeners, timers, rafPending, now, threw, lastVis, lastIntersecting,
                  lastHover, called,
                  waveCtx, bounceCtx >>
  /\ UNCHANGED managerVars
  /\ UNCHANGED sideVars

\* ------------------------------------------------ hover and click events
\* A 'mouseenter' listener that adds the class and does not bounce.
MouseEnter_NoBounce ==
  /\ "mouseenter" \in listeners
  /\ Count("bounce") < MaxEffectTimers
  /\ classes' = classes \cup {"mascot-hover"}
  /\ lastHover' = "enter"
  /\ effects' = NoEffects
  /\ UNCHANGED << variant, supplied, hasElement, config, isVisible, animationFrame,
                  startTime, mousePosition, elementCenter, style, rect,
                  observing, listeners, timers, rafPending, now, threw, lastVis,
                  lastIntersecting, called, waveCtx, bounceCtx >>
  /\ UNCHANGED managerVars
  /\ UNCHANGED sideVars

\* The element's 'mouseenter' listener: add 'mascot-hover', then bounce().
MouseEnter ==
  /\ "mouseenter" \in listeners
  /\ Count("bounce") < MaxEffectTimers
  /\ BounceOn(classes \cup {"mascot-hover"})
  /\ lastHover' = "enter"
  /\ effects' = NoEffects
  /\ UNCHANGED << variant, supplied, hasElement, config, isVisible, animationFrame,
                  startTime, mousePosition, elementCenter, style, rect,
                  observing, listeners, rafPending, now, threw, lastVis,
                  lastIntersecting, called, waveCtx >>
  /\ UNCHANGED managerVars
  /\ UNCHANGED sideVars

\* The element's 'mouseleave' listener: remove 'mascot-hover'.
MouseLeave ==
  /\ "mouseleave" \in listeners
  /\ classes' = classes \ {"mascot-hover"}
  /\ lastHover' = "leave"
  /\ effects' = NoEffects
  /\ UNCHANGED << variant, supplied, hasElement, config, isVisible, animationFrame,
                  startTime, mousePosition, elementCenter, style, rect,
                  observing, listeners, timers, rafPending, now, threw, lastVis,
                  lastIntersecting, called, waveCtx, bounceCtx >>
  /\ UNCHANGED managerVars
  /\ UNCHANGED sideVars

\* The element's 'click' listener: wave().
Click ==
  /\ "click" \in listeners
  /\ Count("wave") < MaxEffectTimers
  /\ Wave
  /\ effects' = NoEffects
  /\ UNCHANGED << variant, supplied, hasElement, config, isVisible, animationFrame,
                  startTime, mousePosition, elementCenter, style, rect,
                  observing, listeners, rafPending, now, lastVis,
                  lastIntersecting, lastHover, called, bounceCtx >>
  /\ UNCHANGED managerVars
  /\ UNCHANGED sideVars

\* ------------------------------------------------ ScrollCharacterManager
\* One entry of handleIntersection: add or remove the target's 'visible'.
HandleEntry_AddOnly(vis, e) ==
  [vis EXCEPT ![e.target] = vis[e.target] \/ e.isIntersecting]

HandleEntry(vis, e) ==
  [vis EXCEPT ![e.target] = e.isIntersecting]

\* handleIntersection(entries): entries.forEach(...), in order.
RECURSIVE HandleIntersection(_, _)
HandleIntersection(vis, entries) ==
  IF entries = << >> THEN vis
  ELSE HandleIntersection(HandleEntry(vis, Head(entries)), Tail(entries))

\* The notifications the observer may deliver: 1..MaxEntries entries.
Entries ==
  UNION { [1..n -> [target : Chars, isIntersecting : BOOLEAN]] : n \in 1..MaxEntries }

\* The most recent entry of `entries` for character c, if any.
LatestFor(entries, c) ==
  LET idx == { i \in 1..Len(entries) : entries[i].target = c } IN
  IF idx = {} THEN lastEntry[c]
  ELSE LET k == CHOOSE i \in idx : \A j \in idx : j <= i IN
       IF entries[k].isIntersecting THEN "in" ELSE "out"

\* The IntersectionObserver callback of the manager.
Notify(entries) ==
  /\ charVisible' = HandleIntersection(charVisible, entries)
  /\ lastEntry' = [c \in Chars |-> LatestFor(entries, c)]
  /\ UNCHANGED << ticking, lastScrollTop, pageYOffset, bodyClasses,
                  scrollFrames, scrollBurst >>
  /\ UNCHANGED mascotVars
  /\ UNCHANGED sideVars

ScrollListener_NoTicking ==
  IF ~ticking
    THEN /\ scrollFrames' = scrollFrames + 1
         /\ ticking' = ticking
    ELSE UNCHANGED << scrollFrames, ticking >>

\* The 'scroll' listener: if (!ticking) { requestAnimationFrame(..); ticking = true }
ScrollListener ==
  IF ~ticking
    THEN /\ scrollFrames' = scrollFrames + 1
         /\ ticking' = TRUE
    ELSE UNCHANGED << scrollFrames, ticking >>

\* The page is scrolled to y and the 'scroll' event is dispatched.
Scroll(y) ==
  /\ scrollBurst < MaxBurst
  /\ scrollFrames < MaxBurst
  /\ pageYOffset' = y
  /\ ScrollListener
  /\ scrollBurst' = scrollBurst + 1
  /\ UNCHANGED << charVisible, lastEntry, lastScrollTop, bodyClasses >>
  /\ UNCHANGED mascotVars
  /\ UNCHANGED sideVars

\* A frame callback that takes an unchanged position for a scroll down.
ScrollFrame_Geq ==
  /\ scrollFrames > 0
  /\ LET scrollTop == pageYOffset
         direction == IF scrollTop >= lastScrollTop THEN "down" ELSE "up" IN
     /\ bodyClasses' = (bodyClasses \ {"scrolling-up", "scrolling-down"})
                          \cup { IF direction = "down" THEN "scrolling-down"
                                                       ELSE "scrolling-up" }
     /\ lastScrollTop' = IF scrollTop <= 0 THEN 0 ELSE scrollTop
  /\ ticking' = FALSE
  /\ scrollFrames' = scrollFrames - 1
  /\ scrollBurst' = 0
  /\ UNCHANGED << charVisible, lastEntry, pageYOffset >>
  /\ UNCHANGED mascotVars
  /\ UNCHANGED sideVars

\* The frame callback requested by the scroll listener.
ScrollFrame ==
  /\ scrollFrames > 0
  /\ LET scrollTop == pageYOffset
         direction == IF scrollTop > lastScrollTop THEN "down" ELSE "up" IN
     /\ bodyClasses' = (bodyClasses \ {"scrolling-up", "scrolling-down"})
                          \cup { IF direction = "down" THEN "scrolling-down"
                                                       ELSE "scrolling-up" }
     /\ lastScrollTop' = IF scrollTop <= 0 THEN 0 ELSE scrollTop
  /\ ticking' = FALSE
  /\ scrollFrames' = scrollFrames - 1
  /\ scrollBurst' = 0
  /\ UNCHANGED << charVisible, lastEntry, pageYOffset >>
  /\ UNCHANGED mascotVars
  /\ UNCHANGED sideVars

\* ------------------------------------------------ the contact form handler
\* The required fields of #contact_form the handler reads: two text inputs
\* would behave alike, so one text input, the e-mail input and the textarea.
Fields == {"name", "email", "message"}

\* $(this).attr('type')
FieldType(f) == IF f = "email" THEN "email" ELSE "text"

\* Characters of field values: \w characters, and the others the pattern
\* names or rejects.
WordChars == {"a", "9", "_"}
LocalChars == WordChars \cup {"-", "."}
LabelChars == WordChars \cup {"-"}

\* Values a text field or the textarea may hold.
TextValues == { << >>, << " " >>, << "a" >>, << " ", "a", " " >> }

\* Values the e-mail field may hold.
EmailValues ==
  { << >>,
    << " " >>,
    << "a", "@", "a", ".", "a", "9" >>,
    << " ", "a", "@", "a", ".", "a", "9", " " >>,
    << "a", ".", "_", "@", "a", "-", "a", ".", "9", ".", "a", "a", "a", "a" >>,
    << "a", "@", "a" >>,
    << "a", "@", "a", ".", "a" >>,
    << "a", "@", "a", ".", "a", "a", "a", "a", "a" >>,
    << "a", " ", "a", "@", "a", ".", "a", "a" >>,
    << "@", "a", ".", "a", "a" >>,
    << "a", "@", ".", "a", "a" >> }

ValuesOf(f) == IF FieldType(f) = "email" THEN EmailValues ELSE TextValues

\* $.trim(v): v without its leading and trailing white space.
RECURSIVE TrimLeft(_)
TrimLeft(v) == IF v # << >> /\ Head(v) = " " THEN TrimLeft(Tail(v)) ELSE v

RECURSIVE TrimRight(_)
TrimRight(v) ==
  IF v # << >> /\ v[Len(v)] = " " THEN TrimRight(SubSeq(v, 1, Len(v) - 1)) ELSE v

Trim(v) == TrimRight(TrimLeft(v))

\* ([\w-]+\.)+[\w-]{2,4}$ : labels of [\w-] characters, each followed by a
\* dot, then a last label of two to four [\w-] characters.
DomainMatches(d) ==
  \E k \in 2..4 :
    LET n == Len(d) - k - 1 IN     \* the labels before the last dot
    /\ n >= 1
    /\ d[n + 1] = "."
    /\ \A i \in (n + 2)..Len(d) : d[i] \in LabelChars
    /\ \A i \in 1..n : d[i] \in LabelChars \cup {"."}
    /\ d[1] # "." /\ d[n] # "."
    /\ \A i \in 1..(n - 1) : ~(d[i] = "." /\ d[i + 1] = ".")

\* email_reg.test(v), email_reg = /^([\w-\.]+@([\w-]+\.)+[\w-]{2,4})?$/
EmailReg(v) ==
  \/ v = << >>
  \/ \E i \in 2..Len(v) :
       /\ v[i] = "@"
       /\ \A j \in 1..(i - 1) : v[j] \in LocalChars
       /\ DomainMatches(SubSeq(v, i + 1, Len(v)))

\* A validation that tests the raw value, untrimmed, for emptiness.
Invalid_NoTrim(f) ==
  \/ fieldVal[f] = << >>
  \/ FieldType(f) = "email" /\ ~EmailReg(Trim(fieldVal[f]))

\* The body of the .each callback: the field is flagged when it is empty
\* after trimming, or is an e-mail field that fails the pattern.
Invalid(f) ==
  \/ Trim(fieldVal[f]) = << >>
  \/ FieldType(f) = "email" /\ ~EmailReg(Trim(fieldVal[f]))

NoFormEffects == [clicked |-> FALSE, sent |-> FALSE]

\* The click handler of #submit_btn.  emailjs.send may throw (throws) or
\* return a promise that settles later.
SubmitClick(throws) ==
  /\ formVisible
  /\ LET proceed == \A f \in Fields : ~Invalid(f) IN
     /\ fieldBg' = { f \in Fields : Invalid(f) }
     /\ IF ~proceed
          THEN /\ UNCHANGED << results, resultsVisible, pendingSends >>
               /\ formEffects' = [clicked |-> TRUE, sent |-> FALSE]
               /\ ~throws
          ELSE IF ~emailjsDefined
                 THEN /\ results' = "error-not-loaded"
                      /\ resultsVisible' = TRUE
                      /\ UNCHANGED pendingSends
                      /\ formEffects' = [clicked |-> TRUE, sent |-> FALSE]
                      /\ ~throws
                 ELSE /\ pendingSends < MaxSends
                      /\ results' = IF throws THEN "error" ELSE "sending"
                      /\ resultsVisible' = TRUE
                      /\ pendingSends' = IF throws THEN pendingSends
                                                   ELSE pendingSends + 1
                      /\ formEffects' = [clicked |-> TRUE, sent |-> TRUE]
  /\ UNCHANGED << emailjsDefined, fieldVal, formVisible >>
  /\ UNCHANGED << mascotVars, managerVars, scriptVars >>

\* The promise of a send is fulfilled: the fields are emptied, the form is
\* hidden and the thank-you message with the 'send another' button is shown.
SendFulfilled ==
  /\ pendingSends > 0
  /\ pendingSends' = pendingSends - 1
  /\ fieldVal' = [f \in Fields |-> << >>]
  /\ formVisible' = FALSE
  /\ results' = "success"
  /\ resultsVisible' = TRUE
  /\ formEffects' = NoFormEffects
  /\ UNCHANGED << emailjsDefined, fieldBg >>
  /\ UNCHANGED << mascotVars, managerVars, scriptVars >>

\* The promise of a send is rejected: the error message is shown.
SendRejected ==
  /\ pendingSends > 0
  /\ pendingSends' = pendingSends - 1
  /\ results' = "error"
  /\ resultsVisible' = TRUE
  /\ formEffects' = NoFormEffects
  /\ UNCHANGED << emailjsDefined, fieldVal, fieldBg, formVisible >>
  /\ UNCHANGED << mascotVars, managerVars, scriptVars >>

\* A click on #send_another, the button of the thank-you message.
SendAnother ==
  /\ results = "success"
  /\ resultsVisible
  /\ resultsVisible' = FALSE
  /\ formVisible' = TRUE
  /\ formEffects' = NoFormEffects
  /\ UNCHANGED << emailjsDefined, fieldVal, fieldBg, results, pendingSends >>
  /\ UNCHANGED << mascotVars, managerVars, scriptVars >>

\* The user edits field f to v; the field's keyup handler runs.
KeyUp(f, v) ==
  /\ formVisible
  /\ fieldVal' = [fieldVal EXCEPT ![f] = v]
  /\ fieldBg' = fieldBg \ {f}
  /\ resultsVisible' = FALSE
  /\ formEffects' = NoFormEffects
  /\ UNCHANGED << emailjsDefined, formVisible, results, pendingSends >>
  /\ UNCHANGED << mascotVars, managerVars, scriptVars >>

\* ------------------------------------------ img/optimize-slider-images.sh
\* The process_image calls of the script, in order: slide name, source file.
Slides ==
  << [name |-> "slide0", source |-> "slide-image-min-1.png"],
     [name |-> "slide1", source |-> "slide-image-min-2.png"],
     [name |-> "slide2", source |-> "slide-image-min-3.png"],
     [name |-> "slide3", source |-> "slide-image-min-4.png"],
     [name |-> "slide4", source |-> "slide-image-min-5.png"],
     [name |-> "slide5", source |-> "slide5-min.jpg"],
     [name |-> "slide6", source |-> "slide6-min.jpg"],
     [name |-> "slide7", source |-> "slide7-min.jpg"] >>

\* The three versions process_image makes of a slide.
Sizes == {"desktop", "tablet", "mobile"}

\* What a source file can be when the script runs: absent; a regular file
\* holding an image; a regular file that holds no image (an empty or
\* truncated file), which passes the -f test and which magick and convert
\* refuse, writing no output.
FileStates == {"missing", "image", "corrupt"}

\* The statements after the last process_image call: the size report, the end.
PcReport == Len(Slides) + 1
PcDone == Len(Slides) + 2

\* The tool selection at the top of the script.
DetectTool(found) ==
  IF "magick" \in found THEN "magick"
  ELSE IF "convert" \in found THEN "convert"
  ELSE "sips"

\* The output files the three conversions leave for one source whose -f
\* test passed.  optimize_sips copies the source to the output before it
\* calls sips, so the output exists whatever the source holds;
\* optimize_imagemagick writes the output only when the tool can read the
\* image.  No exit status is looked at.
Converted(i) ==
  IF tool = "sips" \/ fileState[i] = "image"
    THEN { << Slides[i].name, z >> : z \in Sizes }
    ELSE {}

\* The first statements: banner and tool selection.
Start ==
  /\ pc = 0
  /\ tool' = DetectTool(commands)
  /\ pc' = 1
  /\ UNCHANGED << commands, fileState, outputs, warned >>
  /\ UNCHANGED << mascotVars, managerVars, formVars >>

\* process_image for the next slide: warn and return when [ ! -f source ],
\* else run the three conversions.
ProcessImage ==
  /\ pc \in 1..Len(Slides)
  /\ LET slide == Slides[pc] IN
     IF fileState[pc] = "missing"
       THEN /\ warned' = warned \cup {slide.name}
            /\ outputs' = outputs
            /\ pc' = pc + 1
       ELSE /\ outputs' = outputs \cup Converted(pc)
            /\ warned' = warned
            /\ pc' = pc + 1
  /\ UNCHANGED << commands, fileState, tool >>
  /\ UNCHANGED << mascotVars, managerVars, formVars >>

\* The final size report (show_sizes for every slide) and the next steps.
SizeReport ==
  /\ pc = PcReport
  /\ pc' = PcDone
  /\ UNCHANGED << commands, fileState, tool, outputs, warned >>
  /\ UNCHANGED << mascotVars, managerVars, formVars >>

\* ------------------------------------------------------- construction
\* new MundoMascot(over), on a page where the selector matches or does not.
Construct(v) ==
  /\ variant = v
  /\ hasElement \in BOOLEAN
  /\ supplied \in IF v = "ts" THEN TsOverrides ELSE Overrides
  /\ config = MergeConfig(DefaultConfig, supplied)
  /\ rect \in Rects
  /\ isVisible = FALSE
  /\ animationFrame = Null
  /\ startTime = 0
  /\ mousePosition = Origin
  /\ elementCenter = IF hasElement THEN CenterOf(rect) ELSE Origin
  /\ classes = {}
  /\ style = << >>
  /\ observing = hasElement
  /\ listeners = IF ~hasElement THEN {}
                 ELSE IF v = "ts" THEN {"mousemove", "scroll", "resize"}
                 ELSE {"mousemove", "mouseenter", "mouseleave", "click", "resize"}
  /\ timers = << >>
  /\ rafPending = {}
  /\ now = 0
  /\ effects = NoEffects
  /\ threw = FALSE
  /\ lastVis = "none"
  /\ lastIntersecting = FALSE
  /\ lastHover = "none"
  /\ called = {}
  /\ waveCtx = "none"
  /\ bounceCtx = "none"

\* The module js/mascot-animation.js.
MascotInit == Construct("js")

\* The TypeScript variant of the module.
TsMascotInit == Construct("ts")

\* new ScrollCharacterManager()
ManagerInit ==
  /\ charVisible = [c \in Chars |-> FALSE]
  /\ lastEntry = [c \in Chars |-> "none"]
  /\ ticking = FALSE
  /\ lastScrollTop = 0
  /\ pageYOffset = 0
  /\ bodyClasses = {}
  /\ scrollFrames = 0
  /\ scrollBurst = 0

\* The contact form when the page has loaded, the emailjs script having
\* loaded or not.
FormInit ==
  /\ emailjsDefined \in BOOLEAN
  /\ fieldVal = [f \in Fields |-> << >>]
  /\ fieldBg = {}
  /\ formVisible = TRUE
  /\ results = ""
  /\ resultsVisible = FALSE
  /\ pendingSends = 0
  /\ formEffects = NoFormEffects

\* The rest of the page while the mascot and the manager are looked at: the
\* form untouched, emailjs loaded.
FormIdle == FormInit /\ emailjsDefined

\* The script about to run in a directory without outputs.
ScriptInit ==
  /\ commands \in SUBSET {"magick", "convert"}
  /\ fileState \in [1..Len(Slides) -> FileStates]
  /\ tool = ""
  /\ pc = 0
  /\ outputs = {}
  /\ warned = {}

\* The script not run yet: every source an image, magick installed.
ScriptIdle ==
  /\ ScriptInit
  /\ commands = {"magick"}
  /\ fileState = [i \in 1..Len(Slides) |-> "image"]

SideIdle == FormIdle /\ ScriptIdle

\* A page whose mascot selector matches nothing.
MascotIdle ==
  /\ MascotInit
  /\ ~hasElement
  /\ supplied = EmptyOverrides
  /\ \A r \in Rects : rect.left <= r.left

Init == MascotInit /\ ManagerInit /\ SideIdle

TsInit == TsMascotInit /\ ManagerInit /\ SideIdle

\* The floating loop: visibility, entrance timer, frames, pointer, layout.
Next ==
  \/ \E b \in BOOLEAN : Intersect(b)
  \/ Destroy
  \/ TimerFire
  \/ \E h \in rafPending : FrameFire(h)
  \/ Tick
  \/ \E p \in Pointers : MouseMove(p)
  \/ \E r \in Rects : Resize(r)
  \/ \E r \in Rects : Layout(r)

Spec == Init /\ [][Next]_vars

\* The host runs every due timer and every pending frame callback, and time
\* passes.
LiveSpec ==
  /\ Spec
  /\ WF_vars(TimerFire)
  /\ WF_vars(Tick)
  /\ \A h \in 1..(MaxLoops + 2) : WF_vars(FrameFire(h))

\* The public methods wave(), bounce(), destroy() and the timers they set.
ApiNext ==
  \/ CallWave
  \/ CallBounce
  \/ Destroy
  \/ TimerFire
  \/ Tick

ApiSpec == Init /\ [][ApiNext]_vars

\* Every operation of MundoMascot together: visibility, timers, frames,
\* pointer, layout, hover and click events and the public methods, while the
\* clock has not passed AllHorizon and at most MaxAllTimers timers are pending.
AllBounded ==
  /\ now' <= AllHorizon
  /\ Len(timers') <= MaxAllTimers

AllNext ==
  \/ Next /\ AllBounded
  \/ CallWave /\ AllBounded
  \/ CallBounce /\ AllBounded
  \/ MouseEnter /\ AllBounded
  \/ MouseLeave /\ AllBounded
  \/ Click /\ AllBounded

AllSpec == Init /\ [][AllNext]_vars

\* The TypeScript variant of MundoMascot: the same handlers, its own animate.
TsSpec == TsInit /\ [][Next]_vars

\* ScrollCharacterManager: notifications, scroll events, frame callbacks.
ManagerNext ==
  \/ \E entries \in Entries : Notify(entries)
  \/ \E y \in ScrollPositions : Scroll(y)
  \/ ScrollFrame

ManagerSpec == Init /\ [][ManagerNext]_vars

\* The host runs every requested frame callback.
ManagerLiveSpec == ManagerSpec /\ WF_vars(ScrollFrame)

\* The contact form: edits, submit clicks, settled sends, 'send another'.
FormNext ==
  \/ \E f \in Fields : \E v \in ValuesOf(f) : KeyUp(f, v)
  \/ \E throws \in BOOLEAN : SubmitClick(throws)
  \/ SendFulfilled
  \/ SendRejected
  \/ SendAnother

FormPageInit == MascotIdle /\ ManagerInit /\ FormInit /\ ScriptIdle

FormSpec == FormPageInit /\ [][FormNext]_vars

\* optimize-slider-images.sh, run once from its first statement to its last.
ScriptNext ==
  \/ Start
  \/ ProcessImage
  \/ SizeReport

ScriptRunInit == MascotIdle /\ ManagerInit /\ FormIdle /\ ScriptInit

ScriptSpec == ScriptRunInit /\ [][ScriptNext]_vars

\* ------------------------------------------------------------- properties
\* Some pending entrance timer has not reached its due time: the delay
\* entranceDelay + 800 since the latest entered event has not elapsed.
EntrancePending ==
  \E i \in 1..Len(timers) : timers[i].kind = "entrance" /\ now < timers[i].due

\* C1: a per-frame update is executed only once entranceDelay + 800 time
\* units have elapsed since the most recent entered event, also when the
\* element left and re-entered shortly before.
C1_NoUpdateBeforeDelay == effects.updated => ~EntrancePending

\* C2: once a left event has been processed, no per-frame update is executed
\* until a later entered event has been processed.
C2_NoUpdateAfterExit == effects.updated => lastVis = "entered"

\* A callback of the loop (stale frame or entrance timer) ran after the exit
\* and returned at animate's guard.
C2_StaleCallbackAfterExit == lastVis = "left" /\ effects.returned

\* C3: after wave() at t1 and again at t2, t1 < t2 < t1 + 1000, the 'waving'
\* class stays on the element until t2 + 1000.
C3_LastCallWins ==
  ( /\ hasElement
    /\ waveCtx = "within"
    /\ \E i \in 1..Len(timers) : timers[i].kind = "wave" /\ now < timers[i].due )
  => "waving" \in classes

\* C4: an instance constructed without an element registers no observer and
\* no listener, and wave(), bounce() and destroy() raise no error, change no
\* class or style, schedule no timer and request or cancel no frame.
C4_NoElementNoOp ==
  ~hasElement =>
    /\ ~observing
    /\ listeners = {}
    /\ ~threw
    /\ classes = {}
    /\ style = << >>
    /\ timers = << >>
    /\ rafPending = {}
    /\ animationFrame = Null
    /\ effects = NoEffects

\* All three public methods have been called on an instance without element.
C4_AllMethodsCalled == ~hasElement /\ called = {"wave", "bounce", "destroy"}

\* C5: after destroy(), no per-frame update is executed and no frame
\* callback is requested again.
C5_NoUpdateAfterDestroy ==
  "destroy" \in called => ~effects.updated /\ ~effects.requested

\* C6 as stated: once the element has entered and no left event follows,
\* per-frame updates start and recur forever, each requesting the next.
C6_FloatsForever ==
  /\ [](effects.updated => effects.requested /\ animationFrame \in rafPending)
  /\ [](lastVis = "entered" => <>(lastVis = "left" \/ effects.updated))

\* C6 amended: the same, provided destroy() is never called.
C6_FloatsUnlessDestroyed ==
  /\ [](effects.updated => effects.requested /\ animationFrame \in rafPending)
  /\ [](lastVis = "entered" =>
          <>(lastVis = "left" \/ "destroy" \in called \/ effects.updated))

\* The loop is running: an update has just been made while visible.
C6_Floating ==
  lastVis = "entered" /\ effects.updated /\ "destroy" \notin called /\ now > startTime

\* C7: a lone wave() (bounce()) puts its class on the element and keeps it
\* there for 1000 (600) time units, until its timer removes it; once no
\* timer of wave() (bounce()) is pending, 'waving' ('bouncing') is off.
C7_OneShot ==
  hasElement =>
    /\ waveCtx = "alone" => ("waving" \in classes <=> Count("wave") = 1)
    /\ bounceCtx = "alone" => ("bouncing" \in classes <=> Count("bounce") = 1)
    /\ \A i \in 1..Len(timers) :
         /\ timers[i].kind = "wave" => timers[i].due = timers[i].at + 1000
         /\ timers[i].kind = "bounce" => timers[i].due = timers[i].at + 600
    /\ Count("wave") = 0 => "waving" \notin classes
    /\ Count("bounce") = 0 => "bouncing" \notin classes

\* A lone wave() and a lone bounce() have both run to completion.
C7_BothDone ==
  /\ hasElement
  /\ waveCtx = "alone" /\ bounceCtx = "alone"
  /\ timers = << >>
  /\ now >= WaveDuration

\* C8: each character carries 'visible' iff its most recent notification
\* entry was intersecting, and a notification leaves the class of every
\* character it has no entry for unchanged.
C8_VisibleIffLastEntry ==
  /\ [](\A c \in Chars : lastEntry[c] # "none" =>
                           (charVisible[c] <=> lastEntry[c] = "in"))
  /\ [][\A c \in Chars : lastEntry'[c] = lastEntry[c] =>
                           charVisible'[c] = charVisible[c]]_vars

\* One character was last notified intersecting, another not intersecting.
C8_MixedEntries ==
  \E c, d \in Chars : lastEntry[c] = "in" /\ lastEntry[d] = "out"

\* C9: at most one scroll-direction frame callback is pending, however many
\* scroll events arrive between two frames; after a scroll event one is
\* pending, and the recomputation it makes follows.
C9_OneFramePerBurst ==
  /\ [](/\ scrollFrames <= 1
        /\ ticking <=> scrollFrames = 1
        /\ scrollBurst > 0 => scrollFrames = 1)
  /\ [](scrollBurst > 0 => <>(scrollBurst = 0))

\* Several scroll events have arrived since the last frame callback.
C9_BurstPending == scrollBurst >= 2 /\ scrollFrames = 1 /\ bodyClasses # {}

\* C10 as stated: every visibility transition resets startTime,
\* mousePosition and elementCenter to their freshly-constructed values.
C10_ResetOnTransition ==
  [][isVisible' # isVisible =>
       /\ startTime' = 0
       /\ mousePosition' = Origin
       /\ elementCenter' \in {Origin, CenterOf(rect')}]_vars

\* C10 amended: a visibility transition leaves startTime, mousePosition and
\* elementCenter unchanged; startTime changes only when an entrance timer
\* fires, and then to the current time.
C10_TransitionKeepsState ==
  [][/\ isVisible' # isVisible =>
          UNCHANGED << startTime, mousePosition, elementCenter >>
     /\ startTime' # startTime =>
          /\ startTime' = now
          /\ Count("entrance")' < Count("entrance")]_vars

\* The element left the viewport after floating, with the pointer moved and
\* the layout changed since the centre was computed: startTime and
\* mousePosition differ from their initial values, elementCenter is stale.
C10_LeftWithState ==
  /\ lastVis = "left"
  /\ startTime # 0
  /\ mousePosition # Origin
  /\ elementCenter # CenterOf(rect)

\* C11: the config is the defaults with each field the caller supplied replaced
\* by the caller's value, and no step of any operation (visibility events,
\* timers, frames, pointer, resize and hover events, wave, bounce, destroy)
\* changes it.
C11_ConfigMergedThenFrozen ==
  /\ \A f \in DOMAIN DefaultConfig :
        config[f] = IF f \in DOMAIN supplied THEN supplied[f]
                    ELSE DefaultConfig[f]
  /\ DOMAIN config = DOMAIN DefaultConfig
  /\ [][config' = config]_vars

\* C11 witness: a mascot built with the page's overrides, destroyed after
\* per-frame updates ran with a hover and a bounce() on the way.
C11_OverriddenAndUsed ==
  /\ supplied = PageOverrides
  /\ config.floatAmplitude = PageOverrides.floatAmplitude
  /\ config.entranceDelay = DefaultConfig.entranceDelay
  /\ style # << >>
  /\ lastHover = "enter"
  /\ "destroy" \in called

\* C12: in every per-frame update the pointer-derived offset added to the
\* translation lies within [-20, 20] px horizontally and [-15, 15] px
\* vertically, whatever the pointer position and the element centre are, in
\* the JavaScript module and in the TypeScript variant alike.
C12_OffsetBounded ==
  effects.updated =>
    /\ -ClampX * 1000 <= style[1].mouseX /\ style[1].mouseX <= ClampX * 1000
    /\ -ClampY * 1000 <= style[1].mouseY /\ style[1].mouseY <= ClampY * 1000

\* C13: a per-frame update made while the stored pointer position equals the
\* stored element centre adds a pointer offset of exactly (0, 0), whatever
\* mouseInfluence is.
C13_ZeroOffsetAtCentre ==
  effects.updated /\ mousePosition = elementCenter =>
    style[1].mouseX = 0 /\ style[1].mouseY = 0

\* C13 witness: an update with the pointer on the centre, away from the
\* viewport's corner, with the page's mouseInfluence.
C13_UpdateAtCentre ==
  /\ effects.updated
  /\ mousePosition = elementCenter
  /\ mousePosition # Origin
  /\ config.mouseInfluence = PageOverrides.mouseInfluence

\* C14: every resize event sets elementCenter to the centre of the element's
\* bounding rectangle at that time, and no other step (visibility events,
\* timers, frames, mouse moves, hover events, page layout, wave, bounce,
\* destroy) changes elementCenter.
C14_CenterOnlyByResize ==
  [][ /\ (\E r \in Rects : Resize(r)) /\ hasElement
          => elementCenter' = CenterOf(rect')
      /\ elementCenter' # elementCenter => \E r \in Rects : Resize(r) ]_vars

\* C14 witness: after a resize moved the centre, the page was laid out anew
\* and per-frame updates ran; the stored centre is still the one of the resize.
C14_ResizedThenStale ==
  /\ hasElement
  /\ elementCenter # CenterOf(rect)
  /\ elementCenter = [x |-> 1400, y |-> 1100]
  /\ effects.updated
  /\ lastHover = "enter"

\* C16: at most one frame callback of the floating loop is pending at any
\* time, a pending one is the one whose handle animationFrame stores, and
\* after triggerExit none is pending -- also when the element left and
\* re-entered before the first entrance timer fired.
C16_OneLoopFrame ==
  /\ Cardinality(rafPending) <= 1
  /\ rafPending # {} => rafPending = {animationFrame}
  /\ lastVis = "left" => rafPending = {}

\* C17: the mascot starts hidden.  An intersection entry that is no transition
\* (intersecting while visible, not intersecting while hidden) changes no
\* field, class, timer or frame callback; an entry that makes the element
\* visible schedules exactly one entrance timer, and nothing else schedules one.
C17_OnlyRealTransitions ==
  /\ ~isVisible
  /\ [][ LET entrances(ts) == Len(SelectSeq(ts, LAMBDA t : t.kind = "entrance"))
         IN
         /\ \A b \in BOOLEAN :
               Intersect(b) =>
                 IF b = isVisible
                   THEN UNCHANGED << isVisible, classes, timers, rafPending,
                                     animationFrame, startTime, mousePosition,
                                     elementCenter, style >>
                   ELSE /\ isVisible' = b
                        /\ entrances(timers') =
                             entrances(timers) + (IF b THEN 1 ELSE 0)
         /\ entrances(timers') > entrances(timers)
               => Intersect(TRUE) /\ ~isVisible /\ isVisible' ]_vars

\* C17 witness: an entry reporting the element intersecting was ignored while
\* the element was visible and its floating loop was running.
C17_RepeatedEntryIgnored ==
  /\ effects.ignored
  /\ lastIntersecting
  /\ isVisible
  /\ rafPending # {}

\* C18: while the mascot has an element, isVisible is true exactly when the
\* element carries the 'visible' class, and equals the isIntersecting value of
\* the last intersection entry processed (false before any); only an entry
\* that is a transition, handled by triggerEntrance or triggerExit, changes
\* the flag or the class.
C18_FlagClassEntryAgree ==
  /\ [](hasElement => /\ isVisible <=> "visible" \in classes
                      /\ isVisible = lastIntersecting)
  /\ [][ \/ isVisible' # isVisible
         \/ ("visible" \in classes') # ("visible" \in classes)
         => \E b \in BOOLEAN : Intersect(b) /\ b # isVisible ]_vars

\* C18 witness: the element is visible and floating while a wave started by a
\* click is still shown.
C18_VisibleWhileWaving ==
  /\ hasElement
  /\ isVisible
  /\ lastIntersecting
  /\ classes = {"visible", "waving"}
  /\ style # << >>
  /\ rafPending # {}

\* C19: the body never carries both 'scrolling-down' and 'scrolling-up'; every
\* scroll-direction frame callback leaves exactly one of them: 'scrolling-down'
\* when the scroll position is strictly greater than the position the previous
\* callback recorded (0 at first), 'scrolling-up' otherwise, an unchanged
\* position included; the recorded position is never negative.
C19_DirectionClass ==
  /\ [](/\ ~({"scrolling-up", "scrolling-down"} \subseteq bodyClasses)
        /\ lastScrollTop >= 0)
  /\ [][ scrollFrames' < scrollFrames =>
           bodyClasses' \cap {"scrolling-up", "scrolling-down"} =
             { IF pageYOffset > lastScrollTop THEN "scrolling-down"
                                              ELSE "scrolling-up" } ]_vars

\* C19 witness: the page is scrolled past its top (a negative position), the
\* frame callback has run, and the recorded position is 0 with 'scrolling-up'.
C19_OverscrollRecordedAsZero ==
  /\ pageYOffset < 0
  /\ scrollFrames = 0
  /\ scrollBurst = 0
  /\ lastScrollTop = 0
  /\ bodyClasses = {"scrolling-up"}

\* C20: with an element, 'mascot-hover' is on the element exactly when the
\* last of the mouseenter and mouseleave events was a mouseenter; every
\* mouseenter runs bounce() and every click runs wave(); and these three
\* events change neither isVisible, nor the 'visible' class, nor the floating
\* loop (its pending frames, stored handle, start time and written style).
C20_HoverAndClick ==
  /\ [](hasElement => ("mascot-hover" \in classes <=> lastHover = "enter"))
  /\ [][ LET pending(ts, k) == Len(SelectSeq(ts, LAMBDA t : t.kind = k)) IN
         /\ MouseEnter => /\ "bouncing" \in classes'
                          /\ pending(timers', "bounce") = pending(timers, "bounce") + 1
                          /\ timers'[Len(timers')].due = now + BounceDuration
         /\ Click => /\ "waving" \in classes'
                     /\ pending(timers', "wave") = pending(timers, "wave") + 1
                     /\ timers'[Len(timers')].due = now + WaveDuration
         /\ MouseEnter \/ MouseLeave \/ Click =>
              /\ UNCHANGED << isVisible, rafPending, animationFrame, startTime,
                              style >>
              /\ ("visible" \in classes') = ("visible" \in classes)
              /\ pending(timers', "entrance") = pending(timers, "entrance") ]_vars

\* C20 witness: the pointer has entered and left the element; the bounce of
\* the mouseenter is still shown while the element is visible and floating.
C20_HoveredWhileFloating ==
  /\ isVisible
  /\ style # << >>
  /\ rafPending = {animationFrame}
  /\ lastHover = "leave"
  /\ classes = {"visible", "bouncing"}

\* C21: in the TypeScript variant, once destroy() has returned, a resize
\* event no longer runs handleResize, so it leaves elementCenter unchanged.
C21_NoResizeAfterDestroy ==
  [][ "destroy" \in called /\ (\E r \in Rects : Resize(r))
        => elementCenter' = elementCenter ]_vars

\* C22: a click on the submit button calls emailjs.send only when every
\* required field is non-empty after trimming, every required e-mail field
\* matches the pattern and emailjs is defined.  Otherwise the click makes no
\* send, highlights exactly the offending fields (or, all fields being valid
\* and emailjs missing, shows the error alert), and leaves the form visible
\* and the field values as they were.
C22_SendOnlyWhenValid ==
  [][ formEffects'.clicked =>
        LET filled(f) == Trim(fieldVal[f]) # << >>
            wellFormed(f) == FieldType(f) = "email" => EmailReg(Trim(fieldVal[f]))
            valid == \A f \in Fields : filled(f) /\ wellFormed(f)
        IN
        /\ formEffects'.sent => valid /\ emailjsDefined
        /\ ~(valid /\ emailjsDefined) =>
             /\ ~formEffects'.sent
             /\ pendingSends' = pendingSends
             /\ formVisible' /\ formVisible
             /\ fieldVal' = fieldVal
             /\ IF valid
                  THEN results' = "error-not-loaded" /\ resultsVisible'
                  ELSE \A f \in Fields :
                         f \in fieldBg' <=> ~(filled(f) /\ wellFormed(f)) ]_vars

\* C22 witness: a click was refused because of a malformed, non-empty e-mail
\* address while an earlier send was still pending; only the e-mail field is
\* highlighted.
C22_RefusedForBadEmail ==
  /\ formEffects.clicked
  /\ ~formEffects.sent
  /\ emailjsDefined
  /\ pendingSends = 1
  /\ Trim(fieldVal["email"]) # << >>
  /\ fieldBg = {"email"}
  /\ formVisible

\* C23: the slides are processed in order and independently.  Once a slide
\* has been processed: if its source file exists, exactly its three outputs
\* (desktop, tablet, mobile) have been produced and no warning printed; if its
\* source is missing, the warning has been printed and none of its outputs
\* produced.  Slides not processed yet have no output, and the script ends
\* only after the size report.
C23_ThreeOutputsOrWarning ==
  \A i \in 1..Len(Slides) :
    LET slide == Slides[i]
        made == { o \in outputs : o[1] = slide.name }
        processed == i < pc
    IN
    IF ~processed
      THEN made = {} /\ slide.name \notin warned
      ELSE IF fileState[i] = "missing"
             THEN made = {} /\ slide.name \in warned
             ELSE /\ made = { << slide.name, z >> : z \in Sizes }
                  /\ slide.name \notin warned

=============================================================================
